---- MODULE Spec2Model ----
(***************************************************************************)
(* A model of tsdat's configuration classes and standardization step:     *)
(*   - tsdat/config/pipeline_definition.py : PipelineDefinition            *)
(*   - tsdat/config/variables.py           : VariableAttributes, Variable, *)
(*                                           Coordinate                    *)
(*   - tsdat/pipeline/pipeline.py          : Pipeline.standardize          *)
(*                                                                         *)
(* Python strings that the code inspects character by character (naming   *)
(* components, data levels, dtypes, units, comments) are sequences of     *)
(* one-character strings; strings that are only compared whole (the       *)
(* pipeline type, dictionary keys, slot names) are TLA+ strings.          *)
(* An optional value is a sequence of length 0 (None) or 1.               *)
(***************************************************************************)
EXTENDS Integers, Sequences, FiniteSets, TLC

VARIABLES
    dictionary,   \* the dictionary last handed to PipelineDefinition.__init__
    pdef,         \* the outcome of that construction
    cls,          \* the pydantic class last constructed
    kwargs,       \* the keyword arguments handed to it
    built,        \* the outcome of that construction
    definition,   \* config.dataset_definition: slot name -> data held
    raw,          \* the raw dataset of the run in progress
    pc,           \* position of Pipeline.standardize
    calls,        \* the extract_data calls of the run in progress, in order
    assembled,    \* standardized_dataset of the run in progress
    output,       \* what the last finished run returned
    validated,    \* the validator's invocations in the run in progress: dataset and verdict
    error,        \* the exception the run in progress ended with
    runs          \* the number of standardize runs begun

pdVars   == <<dictionary, pdef>>
varVars  == <<cls, kwargs, built>>
pipeVars == <<definition, raw, pc, calls, assembled, output, validated, error, runs>>
vars     == <<dictionary, pdef, cls, kwargs, built,
              definition, raw, pc, calls, assembled, output, validated, error, runs>>

(***************************************************************************)
(* Python values                                                           *)
(***************************************************************************)
None == <<>>
Some(v) == <<v>>
IsNone(o) == Len(o) = 0

\* s + t for two strings
Concat(s, t) == s \o t

\* "sub in s" for strings: sub occurs in s as a contiguous run
Contains(s, sub) ==
    \E i \in 0..(Len(s) - Len(sub)) :
        \A j \in 1..Len(sub) : s[i + j] = sub[j]

\* "x in list" for a list compared element by element
InList(x, list) == \E i \in DOMAIN list : list[i] = x

\* dict.get(key, default)
DictGet(d, key, default) == IF key \in DOMAIN d THEN d[key] ELSE default

\* dict.get(key): None when the key is absent
DictGetOpt(d, key) == IF key \in DOMAIN d THEN Some(d[key]) ELSE None

(***************************************************************************)
(* tsdat/config/pipeline_definition.py                                     *)
(***************************************************************************)
PipelineKeys_TYPE == "type"
PipelineKeys_INPUT_DATA_LEVEL == "input_data_level"
PipelineKeys_OUTPUT_DATA_LEVEL == "output_data_level"
PipelineKeys_LOCATION_ID == "location_id"
PipelineKeys_INSTRUMENT_ID == "instrument_id"
PipelineKeys_QUALIFIER == "qualifier"
PipelineKeys_TEMPORAL == "temporal"

\* the value dictionary.get(PipelineKeys_TYPE, None) yields for an absent type
NoType == "None"

\* a third type let through
valid_types_lenient == <<"Ingest", "VAP", "ingest">>

valid_types == <<"Ingest", "VAP">>

illegal_characters == <<".", "-", " ">>

default_input_data_level(pipeline_type) ==
    IF pipeline_type = "Ingest" THEN <<"0", "0">> ELSE <<"a", "1">>

default_output_data_level(pipeline_type) ==
    IF pipeline_type = "Ingest" THEN <<"a", "1">> ELSE <<"b", "1">>

Raised(kind, message) == [status |-> "raised", kind |-> kind, message |-> message]

\* valid = lambda component: sum([bad_char in component ...]) == 0
valid(component) ==
    Cardinality({k \in DOMAIN illegal_characters :
                    Contains(component, <<illegal_characters[k]>>)}) = 0

\* bad_components = [component for component in components_to_check
\*                   if not valid(component)]
bad_components(components_to_check) ==
    SelectSeq(components_to_check, LAMBDA component : ~valid(component))

\* check_file_name_components: "ok", or the exception it raises.  The
\* components are optional values; "bad_char in None" is a TypeError.
check_file_name_components(location_id, instrument_id, qualifier, temporal) ==
    LET opts == <<location_id, instrument_id, qualifier, temporal>>
    IN  IF \E i \in DOMAIN opts : IsNone(opts[i])
        THEN Raised("TypeError",
                    [text |-> "argument of type 'NoneType' is not iterable"])
        ELSE LET components_to_check == [i \in DOMAIN opts |-> opts[i][1]]
                 bad == bad_components(components_to_check)
             IN  IF bad # <<>>
                 THEN Raised("DefinitionError",
                        [text |-> "The following properties contained one or more illegal characters: ",
                         listed |-> bad,
                         illegal |-> illegal_characters])
                 ELSE [status |-> "ok"]

\* the qualifier appended without testing that it is non-empty
base_datastream_name_always_qualified(location_id, instrument_id, qualifier, temporal) ==
    LET b1 == Concat(Concat(Concat(Concat(location_id, <<".">>), instrument_id),
                            <<"-">>), qualifier)
    IN  IF temporal # <<>> THEN Concat(Concat(b1, <<"-">>), temporal) ELSE b1

base_datastream_name(location_id, instrument_id, qualifier, temporal) ==
    LET b0 == Concat(Concat(location_id, <<".">>), instrument_id)
        b1 == IF qualifier # <<>> THEN Concat(Concat(b0, <<"-">>), qualifier) ELSE b0
    IN  IF temporal # <<>> THEN Concat(Concat(b1, <<"-">>), temporal) ELSE b1

\* PipelineDefinition.__init__: the object constructed, or the exception raised
PipelineDefinition(d) ==
    LET pipeline_type == DictGet(d, PipelineKeys_TYPE, NoType)
    IN  IF ~InList(pipeline_type, valid_types)
        THEN Raised("DefinitionError",
                    [text |-> "Pipeline type must be one of: ", listed |-> valid_types])
        ELSE
        LET input_data_level ==
                DictGet(d, PipelineKeys_INPUT_DATA_LEVEL, default_input_data_level(pipeline_type))
            output_data_level ==
                DictGet(d, PipelineKeys_OUTPUT_DATA_LEVEL, default_output_data_level(pipeline_type))
            location_id == DictGetOpt(d, PipelineKeys_LOCATION_ID)
            instrument_id == DictGetOpt(d, PipelineKeys_INSTRUMENT_ID)
            qualifier == Some(DictGet(d, PipelineKeys_QUALIFIER, <<>>))
            temporal == Some(DictGet(d, PipelineKeys_TEMPORAL, <<>>))
            checked == check_file_name_components(location_id, instrument_id,
                                                  qualifier, temporal)
        IN  IF checked.status # "ok" THEN checked
            ELSE
            LET base == base_datastream_name(location_id[1], instrument_id[1],
                                             qualifier[1], temporal[1])
            IN  [status |-> "ok",
                 type |-> pipeline_type,
                 input_data_level |-> input_data_level,
                 output_data_level |-> output_data_level,
                 location_id |-> location_id[1],
                 instrument_id |-> instrument_id[1],
                 qualifier |-> qualifier[1],
                 temporal |-> temporal[1],
                 input_datastream_name |->
                     Concat(Concat(base, <<".">>), input_data_level),
                 output_datastream_name |->
                     Concat(Concat(base, <<".">>), output_data_level)]

\* The dictionaries tried: each key absent or set to one of a few values.
TypeValues == {"Ingest", "VAP", "ingest"}
InputLevelValues == {<<"0", "0">>, <<"b", "0">>}
OutputLevelValues == {<<"a", "1">>, <<"c", "1">>}
LocationValues == {<<"b", "u", "o", "y">>, <<"b", "u", "o", "y", ".", "a">>, <<"b", " ", "y">>}
InstrumentValues == {<<"i", "m", "u">>, <<"i", "-", "u">>}
QualifierValues == {<<>>, <<"z", "0", "6">>, <<"z", ".", "6">>}
TemporalValues == {<<"1", "0", "m">>, <<"1", " ", "m">>}

Optional(S) == {None} \cup {Some(v) : v \in S}

\* the dictionary holding the keys whose optional value is given
MakeDictionary(t, il, ol, loc, ins, q, tm) ==
    LET given == [k \in {PipelineKeys_TYPE, PipelineKeys_INPUT_DATA_LEVEL, PipelineKeys_OUTPUT_DATA_LEVEL, PipelineKeys_LOCATION_ID,
                         PipelineKeys_INSTRUMENT_ID, PipelineKeys_QUALIFIER, PipelineKeys_TEMPORAL} |->
                    CASE k = PipelineKeys_TYPE -> t
                      [] k = PipelineKeys_INPUT_DATA_LEVEL -> il
                      [] k = PipelineKeys_OUTPUT_DATA_LEVEL -> ol
                      [] k = PipelineKeys_LOCATION_ID -> loc
                      [] k = PipelineKeys_INSTRUMENT_ID -> ins
                      [] k = PipelineKeys_QUALIFIER -> q
                      [] OTHER -> tm]
    IN  [k \in {k \in DOMAIN given : ~IsNone(given[k])} |-> given[k][1]]

NotBuilt == [status |-> "none"]

\* pipeline_definition = PipelineDefinition(dictionary)
NewPipelineDefinition ==
    /\ pdef = NotBuilt
    /\ \E t \in Optional(TypeValues), il \in Optional(InputLevelValues),
          ol \in Optional(OutputLevelValues), loc \in Optional(LocationValues),
          ins \in Optional(InstrumentValues), q \in Optional(QualifierValues),
          tm \in Optional(TemporalValues) :
            LET d == MakeDictionary(t, il, ol, loc, ins, q, tm)
            IN  /\ dictionary' = d
                /\ pdef' = PipelineDefinition(d)
    /\ UNCHANGED <<varVars, pipeVars>>

(***************************************************************************)
(* tsdat/config/variables.py                                               *)
(***************************************************************************)
\* a scalar: a number of some numpy kind, or text
Number(kind, n) == [kind |-> kind, num |-> n, text |-> <<>>]
Text(kind, t) == [kind |-> kind, num |-> 0, text |-> t]

\* one entry of a pydantic ValidationError
ErrorAt(loc, text) == [loc |-> loc, text |-> text]

UnknownUnits == <<"U", "n", "k", "n", "o", "w", "n", " ", "u", "n", "i", "t", "s", ".">>

\* @validator("units"): every path returns the string it was given (an
\* unparseable unit only warns)
validate_unit(unit_str) == unit_str

\* the mapping of field name -> value the root validators receive; a field
\* not given holds its default, None
AttributeValues(a) ==
    [units |-> IF "units" \in DOMAIN a THEN Some(validate_unit(a["units"])) ELSE None,
     comment |-> DictGetOpt(a, "comment"),
     fill_value |-> DictGetOpt(a, "_FillValue")]

\* Python truthiness of an optional string
Truthy(o) == ~IsNone(o) /\ o[1] # <<>>

\* units tested for None only, so that empty units pass
validate_units_are_commented_none_only(values) ==
    /\ IsNone(values.units)
    /\ \/ ~Truthy(values.comment)
       \/ ~Contains(values.comment[1], UnknownUnits)

\* @root_validator validate_units_are_commented: TRUE when it raises
validate_units_are_commented(values) ==
    /\ ~Truthy(values.units)
    /\ \/ ~Truthy(values.comment)
       \/ ~Contains(values.comment[1], UnknownUnits)

\* the names of the fields the keys given set ("_FillValue" is the alias
\* of fill_value)
FieldsSet(a) == {IF k = "_FillValue" THEN "fill_value" ELSE k : k \in DOMAIN a}

\* VariableAttributes(**a): the object constructed, or the error raised
VariableAttributes(a) ==
    LET values == AttributeValues(a)
    IN  IF validate_units_are_commented(values)
        THEN Raised("ValidationError",
                    <<ErrorAt("__root__", "The 'units' attr is required if known.")>>)
        ELSE [status |-> "ok",
              units |-> values.units,
              comment |-> values.comment,
              fill_value |-> values.fill_value,
              fields_set |-> FieldsSet(a)]

\* the dtype strings tried
dtype_str == <<"s", "t", "r">>
dtype_float == <<"f", "l", "o", "a", "t">>
dtype_int == <<"i", "n", "t">>
dtype_float32 == <<"f", "l", "o", "a", "t", "3", "2">>
dtype_datetime == <<"d", "a", "t", "e", "t", "i", "m", "e", "6", "4", "[", "n", "s", "]">>
dtype_datetime_s == <<"d", "a", "t", "e", "t", "i", "m", "e", "6", "4", "[", "s", "]">>
dtype_U5 == <<"U", "5">>
dtype_unknown == <<"f", "l", "o", "t">>

\* the fill sentinel of np.array([-9999.0], dtype=dtype)
FillSentinel == -9999

\* a fixed-width unicode dtype, "U" followed by its width in digits
DigitChars == <<"0", "1", "2", "3", "4", "5", "6", "7", "8", "9">>
IsDigit(c) == InList(c, DigitChars)
DigitValue(c) == (CHOOSE i \in DOMAIN DigitChars : DigitChars[i] = c) - 1
RECURSIVE ParseNat(_)
ParseNat(s) ==
    IF s = <<>> THEN 0
    ELSE 10 * ParseNat(SubSeq(s, 1, Len(s) - 1)) + DigitValue(s[Len(s)])
IsUnicodeDtype(dtype) ==
    /\ Len(dtype) >= 2
    /\ dtype[1] = "U"
    /\ \A i \in 2..Len(dtype) : IsDigit(dtype[i])

\* numpy's name for the dtype string, None when numpy does not know it
NumpyDtype(dtype) ==
    CASE dtype = dtype_float -> Some("float64")
      [] dtype = dtype_float32 -> Some("float32")
      [] dtype = dtype_int -> Some("int64")
      [] dtype = dtype_str -> Some("str_")
      [] dtype = dtype_datetime -> Some("datetime64[ns]")
      [] dtype = dtype_datetime_s -> Some("datetime64[s]")
      [] IsUnicodeDtype(dtype) -> Some("str_")
      [] OTHER -> None

\* str(float(n)) for an integral n: "-9999.0"
RECURSIVE NatDigits(_)
NatDigits(n) ==
    IF n < 10 THEN <<DigitChars[n + 1]>>
    ELSE Append(NatDigits(n \div 10), DigitChars[(n % 10) + 1])
FloatRepr(n) ==
    (IF n < 0 THEN <<"-">> \o NatDigits(0 - n) ELSE NatDigits(n)) \o <<".", "0">>

\* np.array([-9999.0], dtype=dtype)[0]: the number in the dtype's kind, or
\* for a fixed-width unicode dtype its text cut to the width
numpy_cast(n, dtype) ==
    IF IsUnicodeDtype(dtype)
    THEN LET width == ParseNat(Tail(dtype))
             repr == FloatRepr(n)
         IN  Text("str_", SubSeq(repr, 1, IF width < Len(repr) THEN width ELSE Len(repr)))
    ELSE Number(NumpyDtype(dtype)[1], n)

\* the condition under which set_default_fill_value returns attrs as given
KeepsFillValue(attrs, dtype) ==
    \/ "fill_value" \in attrs.fields_set
    \/ dtype = dtype_str
    \/ Contains(dtype, <<"d", "a", "t", "e", "t", "i", "m", "e">>)

\* @validator("attrs") set_default_fill_value: the attrs it returns, or the
\* error numpy's refusal of the dtype becomes
set_default_fill_value(attrs, dtype) ==
    IF KeepsFillValue(attrs, dtype) THEN attrs
    ELSE IF IsNone(NumpyDtype(dtype))
         THEN Raised("ValidationError",
                     <<ErrorAt("attrs", "data type not understood")>>)
         ELSE [attrs EXCEPT !.fill_value = Some(numpy_cast(FillSentinel, dtype)),
                            !.fields_set = @ \cup {"fill_value"}]

\* unique_items=True on dims
UniqueItems(dims) == \A i, j \in DOMAIN dims : dims[i] = dims[j] => i = j

\* the errors of the field validation of Variable(name=, dtype=, dims=,
\* attrs=), in field order, and the attrs validated (None when they failed)
ValidateAttrs(kw) ==
    LET made == VariableAttributes(kw.attrs)
    IN  IF made.status # "ok" THEN made
        ELSE set_default_fill_value(made, kw.dtype)

FieldErrors(kw) ==
    (IF UniqueItems(kw.dims) THEN <<>>
     ELSE <<ErrorAt("dims", "the list has duplicated items")>>)
    \o
    (LET attrs == ValidateAttrs(kw)
     IN  IF attrs.status = "ok" THEN <<>>
         ELSE <<ErrorAt("attrs", attrs.message[1].text)>>)

\* Variable(**kw): the object constructed, or the error raised
Variable(kw) ==
    LET errors == FieldErrors(kw)
    IN  IF errors # <<>> THEN Raised("ValidationError", errors)
        ELSE [status |-> "ok",
              name |-> kw.name,
              dtype |-> kw.dtype,
              dims |-> kw.dims,
              attrs |-> ValidateAttrs(kw)]

\* the name looked up in dims instead of compared with it
coord_dimensioned_by_self_member(values) == ~InList(values.name, values.dims)

\* @root_validator(skip_on_failure=True) coord_dimensioned_by_self: TRUE
\* when it raises
coord_dimensioned_by_self(values) == <<values.name>> # values.dims

\* Coordinate(**kw): the root validator runs only when no field failed
Coordinate(kw) ==
    LET made == Variable(kw)
    IN  IF made.status # "ok" THEN made
        ELSE IF coord_dimensioned_by_self(made)
             THEN Raised("ValidationError",
                         <<[loc |-> "__root__",
                            text |-> "coord must have dims [name]. Found: dims",
                            name |-> made.name,
                            found |-> made.dims]>>)
             ELSE made

\* The keyword arguments tried.
UnitsValues == {<<>>, <<"1">>, <<"m">>}
CommentValues == {<<>>, UnknownUnits, <<"x", ".", " ", "U", "n", "k", "n", "o", "w", "n", " ", "u", "n", "i", "t", "s", ".", " ", "y">>, <<"U", "n", "k", "n", "o", "w", "n", " ", "u", "n", "i", "t", "s">>, <<"u", "n", "k", "n", "o", "w", "n", " ", "u", "n", "i", "t", "s", ".">>}
FillValues == {Number("int", 0 - 1), Text("str", <<"N", "A">>)}
NameValues == {"time", "depth"}
DtypeValues == {dtype_str, dtype_float, dtype_int, dtype_float32,
                dtype_datetime, dtype_datetime_s, dtype_U5, dtype_unknown}
DimsValues == {<<>>, <<"time">>, <<"depth">>, <<"time", "depth">>, <<"time", "time">>}

MakeAttributes(units, comment, fill) ==
    LET given == [k \in {"units", "comment", "_FillValue"} |->
                    CASE k = "units" -> units
                      [] k = "comment" -> comment
                      [] OTHER -> fill]
    IN  [k \in {k \in DOMAIN given : ~IsNone(given[k])} |-> given[k][1]]

AttributeDicts ==
    {MakeAttributes(u, c, f) : u \in Optional(UnitsValues),
                               c \in Optional(CommentValues),
                               f \in Optional(FillValues)}

VariableKwargs ==
    [name : NameValues, dtype : DtypeValues, dims : DimsValues, attrs : AttributeDicts]

NewVariableAttributes ==
    /\ built = NotBuilt
    /\ \E a \in AttributeDicts :
          /\ cls' = "VariableAttributes"
          /\ kwargs' = a
          /\ built' = VariableAttributes(a)
    /\ UNCHANGED <<pdVars, pipeVars>>

NewVariable ==
    /\ built = NotBuilt
    /\ \E kw \in VariableKwargs :
          /\ cls' = "Variable"
          /\ kwargs' = kw
          /\ built' = Variable(kw)
    /\ UNCHANGED <<pdVars, pipeVars>>

NewCoordinate ==
    /\ built = NotBuilt
    /\ \E kw \in VariableKwargs :
          /\ cls' = "Coordinate"
          /\ kwargs' = kw
          /\ built' = Coordinate(kw)
    /\ UNCHANGED <<pdVars, pipeVars>>

(***************************************************************************)
(* tsdat/pipeline/pipeline.py                                              *)
(***************************************************************************)
MaxRuns == 2

\* the schema loaded: definition.coords and definition.vars, in order, and
\* the literal data the configuration gives a slot
definition_coords == <<"time">>
definition_vars == <<"x", "lat">>
Slots == {"time", "x", "lat"}
LiteralData(slot) == IF slot = "lat" THEN Some("46.2") ELSE None

\* config.dataset_definition as Config.load leaves it
LoadedDefinition == [slot \in Slots |-> [literal |-> LiteralData(slot), data |-> None]]

\* the raw datasets tried: each field absent or holding one value
RawValues == {"1.0", "2.0", "n/a"}
CanCoerce(value) == value # "n/a"
RawDatasets ==
    UNION {[fields -> RawValues] : fields \in SUBSET {"time", "x"}}

\* definition.extract_data(slot, dataset): the definition afterwards, or
\* the error raised.  A literal is assigned verbatim; a field the raw
\* dataset lacks leaves the slot as it is; a value that cannot be cast to
\* the declared dtype is a data error.
extract_data(def, slot, dataset) ==
    IF ~IsNone(def[slot].literal)
    THEN [status |-> "ok", definition |-> [def EXCEPT ![slot].data = def[slot].literal]]
    ELSE IF slot \notin DOMAIN dataset
    THEN [status |-> "ok", definition |-> def]
    ELSE IF ~CanCoerce(dataset[slot])
    THEN Raised("DataError", [slot |-> slot, text |-> "cannot cast to dtype"])
    ELSE [status |-> "ok", definition |-> [def EXCEPT ![slot].data = Some(dataset[slot])]]

\* definition.to_dict(): slot name -> the data the slot holds
to_dict(def) == [slot \in DOMAIN def |-> def[slot].data]

\* the two loops swapped: variables first, coordinates second
standardize_loops_swapped == <<definition_vars, definition_coords>>

\* the collections standardize's two loops run over, in program order:
\* definition.coords.values(), then definition.vars.values()
standardize_loops == <<definition_coords, definition_vars>>
coords_loop == standardize_loops[1]
vars_loop == standardize_loops[2]

\* the position after a loop has made its n-th call
AfterCoordinate(n) ==
    IF n < Len(coords_loop) THEN "coords"
    ELSE IF Len(vars_loop) > 0 THEN "vars" ELSE "assemble"
AfterVariable(n) == IF n < Len(vars_loop) THEN "vars" ELSE "assemble"

\* pipeline.standardize(dataset) is called
Standardize ==
    /\ pc \in {"idle", "done", "failed"}
    /\ runs < MaxRuns
    /\ \E dataset \in RawDatasets : raw' = dataset
    /\ runs' = runs + 1
    /\ calls' = <<>>
    /\ assembled' = None
    /\ output' = None
    /\ validated' = <<>>
    /\ error' = None
    /\ pc' = AfterCoordinate(0)
    /\ UNCHANGED <<pdVars, varVars, definition>>

\* one pass of the first loop: definition.extract_data(coordinate, dataset)
ExtractCoordinate ==
    /\ pc = "coords"
    /\ LET coordinate == coords_loop[Len(calls) + 1]
           res == extract_data(definition, coordinate, raw)
       IN  /\ calls' = Append(calls, coordinate)
           /\ IF res.status = "ok"
              THEN /\ definition' = res.definition
                   /\ pc' = AfterCoordinate(Len(calls) + 1)
                   /\ error' = error
              ELSE /\ definition' = definition
                   /\ pc' = "failed"
                   /\ error' = Some(res)
    /\ UNCHANGED <<pdVars, varVars, raw, assembled, output, validated, runs>>

\* one pass of the second loop: definition.extract_data(variable, dataset)
ExtractVariable ==
    /\ pc = "vars"
    /\ LET variable == vars_loop[Len(calls) - Len(coords_loop) + 1]
           res == extract_data(definition, variable, raw)
       IN  /\ calls' = Append(calls, variable)
           /\ IF res.status = "ok"
              THEN /\ definition' = res.definition
                   /\ pc' = AfterVariable(Len(calls) - Len(coords_loop) + 1)
                   /\ error' = error
              ELSE /\ definition' = definition
                   /\ pc' = "failed"
                   /\ error' = Some(res)
    /\ UNCHANGED <<pdVars, varVars, raw, assembled, output, validated, runs>>

\* standardized_dataset = xr.Dataset.from_dict(definition.to_dict()):
\* xarray builds the dataset or raises
Assemble ==
    /\ pc = "assemble"
    /\ \E constructed \in BOOLEAN :
          IF constructed
          THEN /\ assembled' = Some(to_dict(definition))
               /\ pc' = "validate"
               /\ error' = error
          ELSE /\ assembled' = assembled
               /\ pc' = "failed"
               /\ error' = Some(Raised("ValueError", [text |-> "xr.Dataset.from_dict"]))
    /\ UNCHANGED <<pdVars, varVars, definition, raw, calls, output, validated, runs>>

\* self.validate_dataset(standardized_dataset): Standards.validate(dataset)
\* is entered with the dataset
Validate ==
    /\ pc = "validate"
    /\ validated' = Append(validated, [dataset |-> assembled[1], verdict |-> "pending"])
    /\ pc' = "validating"
    /\ UNCHANGED <<pdVars, varVars, definition, raw, calls, assembled, output, error, runs>>

\* the dataset returned whatever the validator's verdict
Return_ignoring_verdict ==
    /\ pc = "validating"
    /\ \E accepted \in BOOLEAN :
          validated' = [validated EXCEPT ![Len(validated)].verdict =
                            IF accepted THEN "accepted" ELSE "violation"]
    /\ output' = assembled
    /\ pc' = "done"
    /\ UNCHANGED <<pdVars, varVars, definition, raw, calls, assembled, error, runs>>

\* Standards.validate returns, and standardize returns standardized_dataset;
\* or it raises, and the exception leaves standardize
Return ==
    /\ pc = "validating"
    /\ \E accepted \in BOOLEAN :
          IF accepted
          THEN /\ validated' = [validated EXCEPT ![Len(validated)].verdict = "accepted"]
               /\ output' = assembled
               /\ pc' = "done"
               /\ error' = error
          ELSE /\ validated' = [validated EXCEPT ![Len(validated)].verdict = "violation"]
               /\ output' = None
               /\ pc' = "failed"
               /\ error' = Some(Raised("ValidationError", [text |-> "Standards.validate"]))
    /\ UNCHANGED <<pdVars, varVars, definition, raw, calls, assembled, runs>>

(***************************************************************************)
(* Specifications                                                          *)
(***************************************************************************)
Init ==
    /\ dictionary = <<>>
    /\ pdef = NotBuilt
    /\ cls = "none"
    /\ kwargs = <<>>
    /\ built = NotBuilt
    /\ definition = LoadedDefinition
    /\ raw = <<>>
    /\ pc = "idle"
    /\ calls = <<>>
    /\ assembled = None
    /\ output = None
    /\ validated = <<>>
    /\ error = None
    /\ runs = 0

NextDefinition == NewPipelineDefinition
NextVariables == NewVariableAttributes \/ NewVariable \/ NewCoordinate
NextPipeline ==
    Standardize \/ ExtractCoordinate \/ ExtractVariable \/ Assemble \/ Validate
        \/ Return

Next == NextDefinition \/ NextVariables \/ NextPipeline

\* construction of pipeline definitions
SpecDefinition == Init /\ [][NextDefinition]_vars
\* construction of attribute sets, variables and coordinates
SpecVariables == Init /\ [][NextVariables]_vars
\* runs of Pipeline.standardize on one pipeline instance
SpecPipeline == Init /\ [][NextPipeline]_vars

Spec == Init /\ [][Next]_vars

(***************************************************************************)
(* Properties of PipelineDefinition (SpecDefinition)                       *)
(***************************************************************************)
Constructed == pdef.status = "ok"
RaisedKind(outcome, kind) == outcome.status = "raised" /\ outcome.kind = kind
GivenType == DictGet(dictionary, "type", NoType)

\* C1: construction succeeds only if the dictionary's type is exactly
\* "Ingest" or "VAP"; for any other value, an absent type included, it
\* raises a DefinitionError whose message names the two valid choices and
\* no PipelineDefinition is produced.
C1_TypeIsIngestOrVAP ==
    pdef # NotBuilt =>
        /\ Constructed => GivenType \in {"Ingest", "VAP"}
        /\ GivenType \notin {"Ingest", "VAP"} =>
              /\ RaisedKind(pdef, "DefinitionError")
              /\ pdef.message.text = "Pipeline type must be one of: "
              /\ pdef.message.listed = <<"Ingest", "VAP">>

\* a dictionary without a type was refused for its type
C1_Witness ==
    /\ pdef # NotBuilt
    /\ "type" \notin DOMAIN dictionary
    /\ RaisedKind(pdef, "DefinitionError")
    /\ pdef.message.listed = <<"Ingest", "VAP">>

\* the datastream names the specification prescribes for a dictionary
ExpectedLevel(d, key, ingest, vap) ==
    IF key \in DOMAIN d THEN d[key]
    ELSE IF d["type"] = "Ingest" THEN ingest ELSE vap
ExpectedBase(d) ==
    LET q == DictGet(d, "qualifier", <<>>)
        t == DictGet(d, "temporal", <<>>)
    IN  d["location_id"] \o <<".">> \o d["instrument_id"]
        \o (IF q = <<>> THEN <<>> ELSE <<"-">> \o q)
        \o (IF t = <<>> THEN <<>> ELSE <<"-">> \o t)

\* C2: every constructed PipelineDefinition has input_datastream_name =
\* base.input_level and output_datastream_name = base.output_level, with
\* base = location_id.instrument_id, then -qualifier and -temporal only
\* when non-empty, and each level the explicit override or else the type's
\* default (Ingest 00/a1, VAP a1/b1).
C2_DatastreamNames ==
    Constructed =>
        /\ pdef.input_datastream_name =
              ExpectedBase(dictionary) \o <<".">>
              \o ExpectedLevel(dictionary, "input_data_level", <<"0", "0">>, <<"a", "1">>)
        /\ pdef.output_datastream_name =
              ExpectedBase(dictionary) \o <<".">>
              \o ExpectedLevel(dictionary, "output_data_level", <<"a", "1">>, <<"b", "1">>)

\* buoy.imu-z06-10m with the default input level and an overriding output level
C2_Witness ==
    /\ Constructed
    /\ pdef.input_datastream_name = <<"b", "u", "o", "y", ".", "i", "m", "u", "-", "z", "0", "6", "-", "1", "0", "m", ".", "0", "0">>
    /\ pdef.output_datastream_name = <<"b", "u", "o", "y", ".", "i", "m", "u", "-", "z", "0", "6", "-", "1", "0", "m", ".", "c", "1">>

\* the naming components a dictionary gives, in the order they are checked
GivenComponents(d) ==
    SelectSeq(<<DictGetOpt(d, "location_id"), DictGetOpt(d, "instrument_id"),
                DictGetOpt(d, "qualifier"), DictGetOpt(d, "temporal")>>,
              LAMBDA o : ~IsNone(o))
HasIllegalCharacter(s) == \E i \in DOMAIN s : s[i] \in {".", "-", " "}
Offending(d) ==
    {c \in {GivenComponents(d)[i][1] : i \in DOMAIN GivenComponents(d)} :
        HasIllegalCharacter(c)}
ListsExactly(outcome, components) ==
    /\ RaisedKind(outcome, "DefinitionError")
    /\ outcome.message.text =
          "The following properties contained one or more illegal characters: "
    /\ {outcome.message.listed[i] : i \in DOMAIN outcome.message.listed} = components

\* C3: if any of location_id, instrument_id, qualifier, temporal contains
\* ".", "-" or a space, construction raises one DefinitionError whose
\* message lists every offending component and no other; and every
\* constructed PipelineDefinition has none of these characters in its four
\* components.  Stated for the dictionaries whose type is valid, the ones
\* that reach the character check.
C3_IllegalCharactersReported ==
    (pdef # NotBuilt /\ GivenType \in {"Ingest", "VAP"}) =>
        /\ Offending(dictionary) # {} => ListsExactly(pdef, Offending(dictionary))
        /\ Constructed =>
              \A s \in {pdef.location_id, pdef.instrument_id,
                        pdef.qualifier, pdef.temporal} : ~HasIllegalCharacter(s)

\* a dictionary that cannot yield a PipelineDefinition
Malformed(d) ==
    \/ DictGet(d, "type", NoType) \notin {"Ingest", "VAP"}
    \/ Offending(d) # {}
    \/ "location_id" \notin DOMAIN d
    \/ "instrument_id" \notin DOMAIN d

\* C10: construction from a malformed dictionary (invalid type, illegal
\* naming character, location_id or instrument_id absent) raises a
\* DefinitionError, never another kind of error, and never constructs an
\* object with the malformed field defaulted.
C10_MalformedIsDefinitionError ==
    (pdef # NotBuilt /\ Malformed(dictionary)) => RaisedKind(pdef, "DefinitionError")

(***************************************************************************)
(* Properties of the attribute set, Variable and Coordinate (SpecVariables)*)
(***************************************************************************)
ErrorsOf(outcome) == {outcome.message[i] : i \in DOMAIN outcome.message}
IdentifiesDims(outcome, name, dims) ==
    /\ RaisedKind(outcome, "ValidationError")
    /\ \E e \in ErrorsOf(outcome) :
          e.loc = "__root__" /\ e.name = name /\ e.found = dims

\* C4: every constructed Coordinate has dims = [name]; constructing one
\* whose dims is anything else fails with an error identifying the
\* coordinate name and the offending dims.
C4_CoordinateDimensionedBySelf ==
    (cls = "Coordinate" /\ built # NotBuilt) =>
        /\ built.status = "ok" => built.dims = <<built.name>>
        /\ kwargs.dims # <<kwargs.name>> =>
              IdentifiesDims(built, kwargs.name, kwargs.dims)

\* the fields of the keyword arguments pass their own validation: dims has
\* no duplicates, attrs is a valid attribute set and numpy knows the dtype
\* when a default fill value is to be computed
AttrsGiven(a) ==
    \/ ("units" \in DOMAIN a /\ a["units"] # <<>>)
    \/ ("comment" \in DOMAIN a /\ Contains(a["comment"], <<"U", "n", "k", "n", "o", "w", "n", " ", "u", "n", "i", "t", "s", ".">>))
FieldsPass(kw) ==
    /\ \A i, j \in DOMAIN kw.dims : kw.dims[i] = kw.dims[j] => i = j
    /\ AttrsGiven(kw.attrs)
    /\ \/ "_FillValue" \in DOMAIN kw.attrs
       \/ kw.dtype # dtype_unknown

\* C4 as amended: every constructed Coordinate has dims = [name];
\* constructing one whose dims is anything else fails, with an error
\* identifying the coordinate name and the offending dims whenever the
\* fields pass their own validation, and otherwise with the errors of the
\* failing fields alone.
C4_Amended ==
    (cls = "Coordinate" /\ built # NotBuilt) =>
        /\ built.status = "ok" => built.dims = <<built.name>>
        /\ kwargs.dims # <<kwargs.name>> =>
              /\ RaisedKind(built, "ValidationError")
              /\ IF FieldsPass(kwargs)
                 THEN IdentifiesDims(built, kwargs.name, kwargs.dims)
                 ELSE \A e \in ErrorsOf(built) : e.loc \in {"dims", "attrs"}

\* a coordinate "time" dimensioned by time and depth was refused, the error
\* naming both
C4_Witness ==
    /\ cls = "Coordinate"
    /\ built # NotBuilt
    /\ kwargs.name = "time"
    /\ kwargs.dims = <<"time", "depth">>
    /\ IdentifiesDims(built, "time", <<"time", "depth">>)

IsStringKind(dtype) == dtype = dtype_str \/ (Len(dtype) >= 2 /\ dtype[1] = "U")
IsDatetimeKind(dtype) == dtype \in {dtype_datetime, dtype_datetime_s}
NumericKind(dtype) ==
    CASE dtype = dtype_float -> "float64"
      [] dtype = dtype_float32 -> "float32"
      [] OTHER -> "int64"

\* C5: for every constructed Variable, a fill_value the attribute set gave
\* explicitly is preserved; otherwise, when dtype is a string or datetime
\* kind fill_value stays unset; otherwise fill_value is -9999 cast to the
\* declared dtype.
C5_DefaultFillValue ==
    (cls \in {"Variable", "Coordinate"} /\ built.status = "ok") =>
        IF "_FillValue" \in DOMAIN kwargs.attrs
        THEN built.attrs.fill_value = Some(kwargs.attrs["_FillValue"])
        ELSE IF IsStringKind(kwargs.dtype) \/ IsDatetimeKind(kwargs.dtype)
        THEN built.attrs.fill_value = None
        ELSE built.attrs.fill_value =
                Some([kind |-> NumericKind(kwargs.dtype), num |-> 0 - 9999, text |-> <<>>])

\* C6: constructing an attribute set fails whenever units is absent or
\* empty and comment is absent or lacks "Unknown units."; it succeeds when
\* units is non-empty whatever the comment, and when units is absent or
\* empty and comment contains "Unknown units.".  So every constructed
\* attribute set has units set or a comment containing "Unknown units.".
C6_UnitsOrComment ==
    (cls = "VariableAttributes" /\ built # NotBuilt) =>
        LET noUnits == "units" \notin DOMAIN kwargs \/ kwargs["units"] = <<>>
            commented == /\ "comment" \in DOMAIN kwargs
                         /\ Contains(kwargs["comment"], <<"U", "n", "k", "n", "o", "w", "n", " ", "u", "n", "i", "t", "s", ".">>)
        IN  /\ (noUnits /\ ~commented) => RaisedKind(built, "ValidationError")
            /\ ~noUnits => built.status = "ok"
            /\ (noUnits /\ commented) => built.status = "ok"
            /\ built.status = "ok" =>
                  \/ (~IsNone(built.units) /\ built.units[1] # <<>>)
                  \/ (~IsNone(built.comment) /\ Contains(built.comment[1], <<"U", "n", "k", "n", "o", "w", "n", " ", "u", "n", "i", "t", "s", ".">>))

\* empty units with the comment "Unknown units" (no full stop) were refused
C6_Witness ==
    /\ cls = "VariableAttributes"
    /\ built # NotBuilt
    /\ "units" \in DOMAIN kwargs /\ kwargs["units"] = <<>>
    /\ "comment" \in DOMAIN kwargs /\ kwargs["comment"] = <<"U", "n", "k", "n", "o", "w", "n", " ", "u", "n", "i", "t", "s">>
    /\ RaisedKind(built, "ValidationError")

(***************************************************************************)
(* Properties of Pipeline.standardize (SpecPipeline)                       *)
(***************************************************************************)
IsCoordinate(slot) == InList(slot, definition_coords)
IsVariable(slot) == InList(slot, definition_vars)
TimesExtracted(slot) == Cardinality({i \in DOMAIN calls : calls[i] = slot})

\* C7: in every run, every extract_data call on a coordinate comes before
\* every extract_data call on a variable, and once the output dataset is
\* assembled each declared coordinate and variable has been extracted
\* exactly once.
C7_CoordinatesBeforeVariables ==
    /\ \A i, j \in DOMAIN calls :
          (IsCoordinate(calls[i]) /\ IsVariable(calls[j])) => i < j
    /\ ~IsNone(assembled) => \A slot \in Slots : TimesExtracted(slot) = 1

\* a run that returned its dataset after extracting time, x and lat
C7_Witness ==
    /\ pc = "done"
    /\ ~IsNone(output)
    /\ Len(calls) = 3
    /\ IsCoordinate(calls[1]) /\ IsVariable(calls[3])

\* C8: a run of standardize leaves config.dataset_definition as it was at
\* configuration load, after any sequence of runs.
C8_TemplateUnchanged == definition = LoadedDefinition

\* the dataset a run on a freshly loaded definition assembles
RECURSIVE ExtractAll(_, _, _)
ExtractAll(def, slots, dataset) ==
    IF slots = <<>> THEN def
    ELSE LET res == extract_data(def, Head(slots), dataset)
         IN  ExtractAll(IF res.status = "ok" THEN res.definition ELSE def,
                        Tail(slots), dataset)
FreshOutput(dataset) ==
    to_dict(ExtractAll(LoadedDefinition, definition_coords \o definition_vars, dataset))

\* C9: the dataset a run returns is the one a run on the same raw input
\* returns on a fresh pipeline: it does not depend on earlier runs, so two
\* runs on the same raw input return identical datasets.
C9_RunsIndependent ==
    (pc = "done" /\ ~IsNone(output)) => output[1] = FreshOutput(raw)

\* the stage of the run a position of standardize stands for
Stage ==
    CASE pc = "idle" -> "NONE"
      [] pc \in {"coords", "vars", "assemble"} -> "EXTRACTING"
      [] pc = "validate" -> "ASSEMBLED"
      [] pc = "validating" -> "VALIDATING"
      [] pc = "done" -> "STANDARDIZED"
      [] OTHER -> "FAILED"

\* the steps a run may take: a new run leaves RAW for EXTRACTING, and the
\* stages follow in order or give way to FAILED
StageSteps ==
    {<<"NONE", "EXTRACTING">>, <<"STANDARDIZED", "EXTRACTING">>,
     <<"FAILED", "EXTRACTING">>, <<"EXTRACTING", "EXTRACTING">>,
     <<"EXTRACTING", "ASSEMBLED">>, <<"ASSEMBLED", "VALIDATING">>,
     <<"VALIDATING", "STANDARDIZED">>, <<"EXTRACTING", "FAILED">>,
     <<"ASSEMBLED", "FAILED">>, <<"VALIDATING", "FAILED">>}

StageStep == (<<Stage, Stage'>>) \in StageSteps

\* the kind of the error of the step that raised
ExpectedErrorKind ==
    IF validated # <<>> THEN "ValidationError"
    ELSE IF /\ calls # <<>>
            /\ calls[Len(calls)] \in DOMAIN raw
            /\ raw[calls[Len(calls)]] = "n/a"
    THEN "DataError"
    ELSE "ValueError"

RunOutcome ==
    /\ Len(validated) <= 1
    /\ validated # <<>> =>
          /\ ~IsNone(assembled)
          /\ validated[1].dataset = assembled[1]
          /\ \A slot \in Slots : TimesExtracted(slot) = 1
    /\ Stage \in {"VALIDATING", "STANDARDIZED"} => Len(validated) = 1
    /\ Stage \in {"EXTRACTING", "ASSEMBLED"} => validated = <<>>
    /\ ~IsNone(output) => Stage = "STANDARDIZED"
    /\ Stage = "STANDARDIZED" =>
          /\ validated[1].verdict = "accepted"
          /\ output = assembled
          /\ IsNone(error)
    /\ Stage = "FAILED" =>
          /\ IsNone(output)
          /\ ~IsNone(error)
          /\ error[1].kind = ExpectedErrorKind
    /\ (validated # <<>> /\ validated[1].verdict = "violation") => Stage = "FAILED"

\* C11: a run goes RAW -> EXTRACTING -> ASSEMBLED -> VALIDATING ->
\* STANDARDIZED or ends in FAILED; the validator is invoked once, only
\* after the dataset is assembled and with that dataset; the dataset is
\* returned only when the validator reported no violation; and when an
\* extraction, assembly or validation step raises, the run ends in FAILED
\* with that error and returns no dataset.
C11_RunStages ==
    /\ []RunOutcome
    /\ [][StageStep]_vars

\* a run whose assembled dataset the validator refused
C11_Witness ==
    /\ pc = "failed"
    /\ Len(validated) = 1
    /\ validated[1].verdict = "violation"
    /\ validated[1].dataset = assembled[1]
    /\ IsNone(output)
    /\ error[1].kind = "ValidationError"

====
